---- MODULE Spec2Model ----
(***************************************************************************)
(* Model of the Unleashed API proxy (function_app.py): the entry points    *)
(* call_unleashed_api / call_unleashed_api_chunked and the pagination      *)
(* engines get_single_page, get_all_pages and get_chunked_pages.           *)
(*                                                                         *)
(* Strings are sequences of lexemes (<<"pageSize=", "1000">> is the text   *)
(* pageSize=1000); concatenation is \o, so substring tests, split, join    *)
(* and replace are computed, not assumed.  Python's None and "name not in  *)
(* locals()" are the empty sequence, a present value x is <<x>>.           *)
(* Time is counted in ticks of 1/TicksPerSecond second.                    *)
(***************************************************************************)
EXTENDS Integers, Sequences, FiniteSets, TLC

(* ---------------------------- bounds ----------------------------------- *)
MaxTotal == 5
MaxStart == 5
MaxChunk == 2
PageLen == 1
ConcTotal == 2
ProbeSteps == 60

(* ------------------------- small helpers ------------------------------- *)
None == <<>>
Some(x) == <<x>>
Min(a, b) == IF a < b THEN a ELSE b
Max(a, b) == IF a > b THEN a ELSE b
Last(s) == s[Len(s)]

TicksPerSecond == 20
Seconds(n) == n * TicksPerSecond

(* ------------------------- string operations --------------------------- *)
StartsWith(s, pat) ==
    /\ Len(pat) =< Len(s)
    /\ SubSeq(s, 1, Len(pat)) = pat

Contains(s, pat) ==
    \E i \in 1..(Len(s) - Len(pat) + 1) : SubSeq(s, i, i + Len(pat) - 1) = pat

RECURSIVE Split(_, _)
Split(s, sep) ==
    IF \A i \in 1..Len(s) : s[i] # sep
    THEN <<s>>
    ELSE LET i == CHOOSE k \in 1..Len(s) :
                      s[k] = sep /\ \A j \in 1..(k - 1) : s[j] # sep
         IN  <<SubSeq(s, 1, i - 1)>> \o Split(SubSeq(s, i + 1, Len(s)), sep)

RECURSIVE Join(_, _)
Join(parts, sep) ==
    IF parts = <<>> THEN <<>>
    ELSE IF Len(parts) = 1 THEN parts[1]
    ELSE parts[1] \o <<sep>> \o Join(Tail(parts), sep)

RECURSIVE Replace(_, _, _)
Replace(s, pat, rep) ==
    IF s = <<>> THEN <<>>
    ELSE IF StartsWith(s, pat)
         THEN rep \o Replace(SubSeq(s, Len(pat) + 1, Len(s)), pat, rep)
         ELSE <<Head(s)>> \o Replace(Tail(s), pat, rep)

RECURSIVE Filter(_, _)
Filter(parts, prefix) ==
    IF parts = <<>> THEN <<>>
    ELSE IF StartsWith(Head(parts), prefix)
         THEN Filter(Tail(parts), prefix)
         ELSE <<Head(parts)>> \o Filter(Tail(parts), prefix)

(* ------------------------- program constants --------------------------- *)
FUNCTION_TIMEOUT == Seconds(570)
CHUNK_TIMEOUT == Seconds(480)
gateway_timeout_protection == Seconds(420)

Endpoints == {"Products"}

endpoint_defaults(ep) ==
    CASE ep = "SalesOrders" -> 15
      [] ep = "StockOnHand" -> 3
      [] ep = "Products" -> 2
      [] ep = "Invoices" -> 3
      [] ep = "Customers" -> 2
      [] ep = "CreditNotes" -> 2
      [] ep = "PurchaseOrders" -> 2
      [] OTHER -> 15

(* ------------------------------ upstream ------------------------------- *)
(* The items the upstream holds on page p: PageLen records, unique per     *)
(* page, so that a skipped, repeated or reordered page shows in Items.     *)
ItemsOfPage(p) == [i \in 1..PageLen |-> (p - 1) * PageLen + i]

RECURSIVE ItemsOfPages(_, _)
ItemsOfPages(from, to) ==
    IF from > to THEN <<>> ELSE ItemsOfPage(from) \o ItemsOfPages(from + 1, to)

Durations == {Seconds(1), Seconds(450)}
ErrorStatuses == {401, 500}

(* What one requests.get can produce for page p: a Timeout exception, any  *)
(* other exception (ConnectionError, ...), a non-200 status with its body   *)
(* (response.text), status 200 with a body that is not JSON, status 200    *)
(* with JSON that is not an object ("badshape"), status 200 with items and *)
(* "NumberOfPages": null ("nullpages"), or status 200 with {Items,         *)
(* Pagination{NumberOfPages}} (NumberOfPages possibly absent).             *)
UpstreamResponses(p) ==
    {[kind |-> "timeout", status |-> 0, items |-> <<>>, pages |-> None]}
    \cup {[kind |-> "exception", status |-> 0, items |-> <<>>, pages |-> None]}
    \cup {[kind |-> "badshape", status |-> 200, items |-> <<>>, pages |-> None]}
    \cup {[kind |-> "nullpages", status |-> 200, items |-> ItemsOfPage(p),
            pages |-> None]}
    \cup {[kind |-> "http", status |-> s, items |-> <<>>, pages |-> None,
            text |-> <<"upstream error ", ToString(s)>>] :
              s \in ErrorStatuses}
    \cup {[kind |-> "badjson", status |-> 200, items |-> <<>>, pages |-> None]}
    \cup {[kind |-> "ok", status |-> 200, items |-> it, pages |-> t] :
              it \in {<<>>, ItemsOfPage(p)},
              t \in {None} \cup {Some(n) : n \in 0..MaxTotal}}

(* pagination.get('NumberOfPages', 1) *)
NumberOfPages(r) == IF r.pages = None THEN 1 ELSE r.pages[1]

(* ------------------------------- state --------------------------------- *)
VARIABLES
    pc,              \* "idle", "done", the top of a loop ("get_all_pages", "get_chunked_pages") or a wait ("...:requests.get", "...:metadata", "...:time.sleep")
    mode,            \* what serves the invocation: "none", "single", "all", "chunked", "info"
    endpoint,
    api_id,
    api_key,
    query_string,
    all_items,
    page_number,     \* None while the name is unbound
    total_pages,     \* None while the name is unbound
    total_api_time,
    elapsed,         \* time.time() - start_time
    start_page,
    chunk_size,
    actual_end_page,
    response,        \* the HttpResponse returned, NoResponse while running
    requests,        \* history: every requests.get issued by the invocation
    included,        \* history: page numbers whose items were appended to all_items
    stop,            \* history: why the invocation stopped, "" while running
    upstream,        \* history: the answer to the latest requests.get, None before the first
    minReported,     \* history: least NumberOfPages a successful response reported
    maxReported,     \* history: largest NumberOfPages a successful response reported
    dataset,         \* history: page count N of the dataset the responses so far agree on
    clean,           \* history: every response so far was a non-empty page of that dataset, no deadline stop
    full,            \* client: result of the last clean get_all_pages call
    sess,            \* client: the chunked continuation session in progress
    environ,         \* history: the two settings the invocation read from os.environ
    filters,         \* history: the inbound query's parameters, the function key and the proxy's own left out
    opt_out,         \* history: the inbound query holds the parameter singlePage=true
    inv              \* the call frames of the invocations the host runs side by side

vars == <<pc, mode, endpoint, api_id, api_key, query_string, all_items, page_number,
          total_pages, total_api_time, elapsed, start_page, chunk_size,
          actual_end_page, response, requests, included, stop, upstream, minReported,
          maxReported, dataset, clean, full, sess, environ, filters, opt_out, inv>>

NoResponse == [status |-> 0]
NoSession == [state |-> "none", cs |-> 0, next |-> 0, items |-> <<>>, nexts |-> <<>>]

(* ----------------------------- signing --------------------------------- *)
(* base64(HMAC-SHA256(key, query)): the tag is kept symbolic, it is equal  *)
(* for two inputs exactly when key and signed text are equal.              *)
generate_signature(query, key) == <<"HMAC-SHA256", key, query>>

base_url(ep) == <<"https://api.unleashedsoftware.com/", ep>>

(* Variant: the page number moved out of the query string into the path. *)
full_url_paged(ep, query) ==
    LET parts == Split(query, "&")
    IN  IF StartsWith(Last(parts), <<"pageNumber=">>)
        THEN base_url(ep) \o <<"/", Last(parts)[2], "?">>
             \o Join(SubSeq(parts, 1, Len(parts) - 1), "&")
        ELSE base_url(ep) \o <<"?">> \o query

full_url(ep, query) == base_url(ep) \o <<"?">> \o query

request_headers(id, key, signed) ==
    [Accept |-> "application/json",
     api_auth_id |-> id,
     api_auth_signature |-> generate_signature(signed, key),
     client_type |-> "PowerBI/Integration"]

(* One requests.get: the URL, the headers, and which page it asks for.     *)
Request(ep, id, key, query, page, meta) ==
    [url |-> full_url(ep, query),
     headers |-> request_headers(id, key, query),
     page |-> page,
     meta |-> meta]

(* -------------------------- query preparation -------------------------- *)
(* Variant: the kept parameters collected in reverse (params.insert(0,     *)
(* param) for params.append(param)).                                       *)
StripCode_reversed(q) ==
    IF Contains(q, <<"code=">>)
    THEN LET kept == Filter(Split(q, "&"), <<"code=">>)
         IN  Join([i \in 1..Len(kept) |-> kept[Len(kept) + 1 - i]], "&")
    ELSE q

(* Remove the function key: lines 229-234 and 504-509. *)
StripCode(q) ==
    IF Contains(q, <<"code=">>)
    THEN Join(Filter(Split(q, "&"), <<"code=">>), "&")
    ELSE q

(* Variant: the parameter left in the query string. *)
StripSinglePage_kept(q) == q

(* Lines 239: three chained str.replace calls. *)
StripSinglePage(q) ==
    Replace(Replace(Replace(q, <<"singlePage=", "true", "&">>, <<>>),
                    <<"&", "singlePage=", "true">>, <<>>),
            <<"singlePage=", "true">>, <<>>)

(* get_single_page, lines 254-257. *)
SinglePageSize(q) ==
    IF q = <<>> THEN <<"pageSize=", "1000">>
    ELSE IF ~Contains(q, <<"pageSize=">>) THEN q \o <<"&", "pageSize=", "1000">>
    ELSE q

(* Variant: the default appended without looking for a pageSize. *)
EnsurePageSize_always(q) ==
    IF q # <<>> THEN q \o <<"&", "pageSize=", "1000">>
    ELSE <<"pageSize=", "1000">>

(* get_all_pages lines 306-310, get_chunked_pages lines 565-569. *)
EnsurePageSize(q) ==
    IF ~Contains(q, <<"pageSize=">>)
    THEN IF q # <<>> THEN q \o <<"&", "pageSize=", "1000">>
         ELSE <<"pageSize=", "1000">>
    ELSE q

(* page_query: lines 329-332 and 635; info_query: line 581. *)
page_query(q, p) ==
    IF q # <<>> THEN q \o <<"&", "pageNumber=", ToString(p)>>
    ELSE <<"pageSize=", "1000", "&", "pageNumber=", ToString(p)>>

(* ---------------------------- the inbound query ------------------------ *)
(* The parameters of a query string, in order; the empty string has none. *)
Params(q) == IF q = <<>> THEN <<>> ELSE Split(q, "&")

(* The name of a parameter, with its "=". *)
KeyOf(param) == IF param = <<>> THEN "" ELSE param[1]

(* The function key and the parameters that steer the proxy itself. *)
FunctionKey == "code="
ControlKeys == {"startPage=", "chunkSize=", "singlePage="}

RECURSIVE WithoutKeys(_, _)
WithoutKeys(params, keys) ==
    IF params = <<>> THEN <<>>
    ELSE IF KeyOf(Head(params)) \in keys THEN WithoutKeys(Tail(params), keys)
    ELSE <<Head(params)>> \o WithoutKeys(Tail(params), keys)

(* What the client means for the upstream: every parameter of the inbound *)
(* query but the function key and the proxy-control parameters.           *)
InboundFilters(raw) == WithoutKeys(Params(raw), {FunctionKey} \cup ControlKeys)

(* The inbound query holds the parameter singlePage=true. *)
AsksSinglePage(raw) ==
    \E k \in 1..Len(Params(raw)) : Params(raw)[k] = <<"singlePage=", "true">>

(* --------------------------- environment ------------------------------- *)
(* os.environ.get of the two settings: <<UNLEASHED_API_ID, UNLEASHED_API_KEY>>. *)
Environments ==
    { <<Some("id"), Some("secret")>>, <<None, Some("secret")>>,
      <<Some("id"), Some("")>>, <<Some(""), None>> }

(* "not api_id or not api_key", lines 218 and 493. *)
CredentialsMissing(id, key) == id = None \/ id = Some("") \/ key = None \/ key = Some("")

(* Variant: the missing settings reported as a server error. *)
CredentialsResponse_500 ==
    [status |-> 500, kind |-> "text", text |-> <<"API credentials not configured">>]

CredentialsResponse ==
    [status |-> 400, kind |-> "text", text |-> <<"API credentials not configured">>]

(* --------------------------- history updates --------------------------- *)
ReportedMin(r) ==
    IF r.kind # "ok" THEN minReported
    ELSE IF minReported = None THEN Some(NumberOfPages(r))
    ELSE Some(Min(minReported[1], NumberOfPages(r)))

ReportedMax(r) ==
    IF r.kind # "ok" THEN maxReported
    ELSE IF maxReported = None THEN Some(NumberOfPages(r))
    ELSE Some(Max(maxReported[1], NumberOfPages(r)))

DatasetAfter(r) == IF dataset = None /\ r.kind = "ok" THEN r.pages ELSE dataset

(* r is what a fixed dataset of N >= 1 non-empty pages answers for page p. *)
FromDataset(r, p) ==
    /\ r.kind = "ok"
    /\ r.items = ItemsOfPage(p)
    /\ r.pages # None
    /\ r.pages[1] >= 1
    /\ p =< r.pages[1]
    /\ dataset = None \/ dataset = r.pages

(* ---------------------------- get_all_pages ---------------------------- *)
(* request_timeout, line 348 (remaining_time / 3 rounded down to a tick). *)
all_request_timeout(remaining_time) ==
    Max(Seconds(30), Min(Seconds(120), remaining_time \div 3))

(* Variant: the budget of the premium plan (1800 s) instead of 570 s. *)
AllDeadline_premium(elapsed_time) == Seconds(1800) - elapsed_time < Seconds(60)

(* The deadline test of line 323. *)
AllDeadline(elapsed_time) == FUNCTION_TIMEOUT - elapsed_time < Seconds(60)

(* Variants: every failed fetch fatal; no failed fetch fatal. *)
FirstPageFatal_always(pn) == TRUE
FirstPageFatal_never(pn) == FALSE

(* "if page_number == 1" of lines 361, 375 and 387: is a failed fetch fatal? *)
FirstPageFatal(pn) == pn = 1

(* Variant: an empty page does not stop the loop. *)
NoItems_never(items) == FALSE

(* "if not items", lines 395 and 665. *)
NoItems(items) == items = <<>>

(* Variants: the comparison off by one, either way. *)
AllPagesDone_strict(pn, tp) == pn > tp
AllPagesDone_early(pn, tp) == pn + 1 >= tp

(* "if page_number >= total_pages", line 426. *)
AllPagesDone(pn, tp) == pn >= tp

(* The delay of lines 434-439, chosen from avg_api_time = total / page_number. *)
all_delay(api_time_total, pn) ==
    IF api_time_total < Seconds(1) * pn THEN Seconds(1) \div 10
    ELSE IF api_time_total < Seconds(3) * pn THEN Seconds(2) \div 10
    ELSE Seconds(5) \div 10

(* was_truncated, line 445. *)
was_truncated(pn, tp) == IF tp # None THEN pn < tp[1] ELSE FALSE

(* The 200 response of lines 448-478. *)
AllResult(items, pn, tp) ==
    [status |-> 200,
     kind |-> "json",
     Items |-> items,
     Pagination |-> [NumberOfItems |-> Len(items),
                     PageSize |-> Len(items),
                     PageNumber |-> 1,
                     NumberOfPages |-> 1,
                     AutoPaginated |-> TRUE,
                     PagesRetrieved |-> pn - 1,
                     TotalPagesAvailable |-> IF tp # None THEN tp[1] ELSE pn - 1,
                     Truncated |-> was_truncated(pn, tp)]]

(* Variant: every first-page failure answered 500 with a text of its own. *)
AllFatal_500(r) ==
    [status |-> 500, kind |-> "text", text |-> <<"Error processing request">>]

(* The error responses of lines 362-365, 376 and 388. *)
AllFatal(r) ==
    CASE r.kind = "timeout" ->
             [status |-> 408, kind |-> "text",
              text |-> <<"API request timeout on first page">>]
      [] r.kind = "http" ->
             [status |-> r.status, kind |-> "text",
              text |-> <<"Page ", "1", " failed: ", ToString(r.status), " - ">>
                       \o r.text]
      [] OTHER ->
             [status |-> 500, kind |-> "text",
              text |-> <<"Invalid JSON response on page ", "1">>]

(* Variant: the new page put in front of the accumulated items. *)
extend_front(items, page) == page \o items

(* all_items.extend(items), lines 399 and 669. *)
extend(items, page) == items \o page

(* The locals of the invocation as one record. *)
Frame ==
    [endpoint |-> endpoint, query_string |-> query_string,
     all_items |-> all_items, page_number |-> page_number,
     total_pages |-> total_pages, total_api_time |-> total_api_time,
     elapsed |-> elapsed, start_page |-> start_page, chunk_size |-> chunk_size,
     actual_end_page |-> actual_end_page]

(* The handler of lines 480-483: any exception the loop does not catch. *)
AllException ==
    [status |-> 500, kind |-> "text", text |-> <<"Auto-pagination error for ">>]

(* Lines 355-432 over the locals f: the requests.get of the pass answered  *)
(* by r after d ticks and the code up to time.sleep or to the end of the   *)
(* loop; the result is the new value of every local, the response when the *)
(* pass leaves the loop, and the reason it left.                           *)
AllPassOf(f, r, d) ==
    LET pn == f.page_number[1]
        cur == [all_items |-> f.all_items, page_number |-> f.page_number,
                total_pages |-> f.total_pages, total_api_time |-> f.total_api_time,
                elapsed |-> f.elapsed + d, response |-> NoResponse, stop |-> ""]
        api_total == f.total_api_time + d
    IN  IF r.kind = "exception"
        THEN [cur EXCEPT !.response = AllException, !.stop = r.kind]
        ELSE IF r.kind \in {"timeout", "http", "badjson"}
        THEN LET c == IF r.kind = "timeout" THEN cur
                      ELSE [cur EXCEPT !.total_api_time = api_total]
             IN  IF FirstPageFatal(pn)
                 THEN [c EXCEPT !.response = AllFatal(r), !.stop = r.kind]
                 ELSE [c EXCEPT !.response = AllResult(f.all_items, pn, f.total_pages),
                                !.stop = r.kind]
        ELSE IF r.kind = "badshape"
        THEN [cur EXCEPT !.total_api_time = api_total,
                         !.response = AllException, !.stop = r.kind]
        ELSE IF NoItems(r.items)
        THEN [cur EXCEPT !.total_api_time = api_total,
                         !.response = AllResult(f.all_items, pn, f.total_pages),
                         !.stop = "empty"]
        ELSE LET items == extend(f.all_items, r.items)
                 tp == NumberOfPages(r)
             IN  IF r.kind = "nullpages"
                 THEN [cur EXCEPT !.all_items = items,
                                  !.total_pages = None,
                                  !.total_api_time = api_total,
                                  !.response = AllException, !.stop = r.kind]
                 ELSE IF AllPagesDone(pn, tp)
                 THEN [cur EXCEPT !.all_items = items,
                                  !.total_pages = Some(tp),
                                  !.total_api_time = api_total,
                                  !.response = AllResult(items, pn, Some(tp)),
                                  !.stop = "all_pages"]
                 ELSE [cur EXCEPT !.all_items = items,
                                  !.total_pages = Some(tp),
                                  !.total_api_time = api_total,
                                  !.page_number = Some(pn + 1)]

AllPass(r, d) == AllPassOf(Frame, r, d)

(* time.sleep(delay), lines 434-441: the clock after the wait.  The page   *)
(* counter was advanced at line 432, avg_api_time computed before that.    *)
AllSleepOf(f) == f.elapsed + all_delay(f.total_api_time, f.page_number[1] - 1)

(* The pass that stops on the deadline test, lines 320-326. *)
AllDeadlinePassOf(f) ==
    [all_items |-> f.all_items, page_number |-> f.page_number,
     total_pages |-> f.total_pages, total_api_time |-> f.total_api_time,
     elapsed |-> f.elapsed,
     response |-> AllResult(f.all_items, f.page_number[1], f.total_pages),
     stop |-> "deadline"]

AllDeadlinePass == AllDeadlinePassOf(Frame)

(* What the client keeps of a get_all_pages call: its Items when every     *)
(* response came from one fixed dataset and every page was retrieved.      *)
FullAfter(n, isClean) ==
    IF n.stop = "all_pages" /\ isClean
    THEN Some([N |-> n.total_pages[1], Items |-> n.response.Items])
    ELSE None

(* The parameters of the engine and the record of the inbound request:     *)
(* no step of either loop assigns them.                                    *)
Untouched ==
    UNCHANGED <<mode, endpoint, api_id, api_key, query_string, start_page,
                chunk_size, environ, filters, opt_out, inv>>

(* Lines 318-355: the deadline test and, when it passes, the request of    *)
(* page page_number sent; the code then waits in requests.get.             *)
GetAllPagesRequest ==
    /\ pc = "get_all_pages"
    /\ IF AllDeadline(elapsed)
       THEN LET n == AllDeadlinePass
            IN  /\ response' = n.response
                /\ stop' = n.stop
                /\ pc' = "done"
                /\ clean' = FALSE
                /\ full' = None
                /\ UNCHANGED requests
       ELSE /\ requests' = Append(requests,
                   Request(endpoint, api_id, api_key,
                           page_query(query_string, page_number[1]),
                           page_number, FALSE))
            /\ pc' = "get_all_pages:requests.get"
            /\ UNCHANGED <<response, stop, clean, full>>
    /\ UNCHANGED <<all_items, page_number, total_pages, total_api_time, elapsed,
                   included, upstream, minReported, maxReported, dataset,
                   actual_end_page, sess>>
    /\ Untouched

(* Lines 355-432: requests.get returns or raises and the answer is dealt   *)
(* with, up to time.sleep or to the return.                                *)
GetAllPagesAnswer ==
    /\ pc = "get_all_pages:requests.get"
    /\ \E r \in UpstreamResponses(page_number[1]) :
       \E d \in IF r.kind = "timeout"
                THEN {all_request_timeout(FUNCTION_TIMEOUT - elapsed)}
                ELSE Durations :
           LET pn == page_number[1]
               n == AllPass(r, d)
               isClean == clean /\ FromDataset(r, pn)
           IN  /\ all_items' = n.all_items
               /\ page_number' = n.page_number
               /\ total_pages' = n.total_pages
               /\ total_api_time' = n.total_api_time
               /\ elapsed' = n.elapsed
               /\ response' = n.response
               /\ stop' = n.stop
               /\ pc' = IF n.stop = "" THEN "get_all_pages:time.sleep" ELSE "done"
               /\ included' = IF n.all_items # all_items
                              THEN Append(included, pn) ELSE included
               /\ upstream' = Some(r)
               /\ minReported' = ReportedMin(r)
               /\ maxReported' = ReportedMax(r)
               /\ dataset' = DatasetAfter(r)
               /\ clean' = isClean
               /\ full' = IF n.stop = "" THEN full ELSE FullAfter(n, isClean)
    /\ UNCHANGED <<requests, actual_end_page, sess>>
    /\ Untouched

(* Lines 434-441: the wait in time.sleep, then back to line 318. *)
GetAllPagesSleep ==
    /\ pc = "get_all_pages:time.sleep"
    /\ elapsed' = AllSleepOf(Frame)
    /\ pc' = "get_all_pages"
    /\ UNCHANGED <<all_items, page_number, total_pages, total_api_time, response,
                   requests, included, stop, upstream, minReported, maxReported,
                   dataset, clean, full, actual_end_page, sess>>
    /\ Untouched

(* One pass of the while loop, lines 318-441, in its three steps. *)
GetAllPagesIteration ==
    \/ GetAllPagesRequest
    \/ GetAllPagesAnswer
    \/ GetAllPagesSleep

(* --------------------------- get_single_page --------------------------- *)
(* Lines 273-289: the upstream body is passed through on status 200, the   *)
(* upstream status is passed through otherwise, any exception gives 500.   *)
SingleResult(r) ==
    CASE r.kind \in {"timeout", "exception"} ->
             [status |-> 500, kind |-> "text", text |-> <<"Single page error: ">>]
      [] r.kind = "http" ->
             [status |-> r.status, kind |-> "text",
              text |-> <<"API call failed: ", ToString(r.status), " - ">> \o r.text]
      [] OTHER ->
             [status |-> 200, kind |-> "passthrough", body |-> r]

(* ------------------------------- inputs -------------------------------- *)
RawQueries ==
    { <<>>,
      <<"code=", "K", "&", "pageSize=", "500">>,
      <<"sort=", "z", "&", "code=", "K", "&", "filter=", "x">>,
      <<"filter=", "x", "&", "code=", "K", "&", "singlePage=", "true">> }

(* The inbound requests of call_unleashed_api: the route's endpoint and    *)
(* the query string.  The Invoices request carries a key that is no filter *)
(* of the resource, the function key and the two chunk parameters; the     *)
(* last request asks for a single page with two filters around the key.    *)
ApiCalls ==
    {<<ep, raw>> : ep \in Endpoints, raw \in RawQueries}
    \cup {<<"Invoices", <<"colour=", "red", "&", "code=", "K", "&",
                          "startPage=", "2", "&", "chunkSize=", "2">>>>}
    \cup {<<"Products", <<"sort=", "z", "&", "code=", "K", "&", "filter=", "x",
                          "&", "singlePage=", "true">>>>}

(* The locals of a fresh invocation and its empty history. *)
Begin(m, ep, id, key, q) ==
    /\ mode' = m
    /\ endpoint' = ep
    /\ api_id' = id
    /\ api_key' = key
    /\ query_string' = q
    /\ all_items' = <<>>
    /\ total_pages' = None
    /\ total_api_time' = 0
    /\ start_page' = 1
    /\ chunk_size' = 0
    /\ actual_end_page' = 0
    /\ included' = <<>>
    /\ minReported' = None
    /\ maxReported' = None
    /\ dataset' = None

Failures == {"timeout", "http", "badjson"}

(* --------------------------- call_unleashed_api ------------------------ *)
CallUnleashedApi ==
    /\ UNCHANGED inv
    /\ pc = "idle"
    /\ \E call \in ApiCalls, env \in Environments :
         LET ep == call[1]
             raw == call[2]
             id == env[1]
             key == env[2]
         IN
         /\ environ' = env
         /\ filters' = InboundFilters(raw)
         /\ opt_out' = AsksSinglePage(raw)
         /\ IF CredentialsMissing(id, key)
            THEN /\ Begin("none", "", None, None, <<>>)
                 /\ page_number' = None
                 /\ elapsed' = 0
                 /\ requests' = <<>>
                 /\ response' = CredentialsResponse
                 /\ stop' = "credentials"
                 /\ upstream' = None
                 /\ pc' = "done"
                 /\ clean' = FALSE
                 /\ UNCHANGED <<full, sess>>
            ELSE LET q == StripCode(raw)
                 IN  IF Contains(q, <<"singlePage=", "true">>)
                     THEN LET sq == SinglePageSize(StripSinglePage(q))
                          IN  /\ Begin("single", ep, id[1], key[1], sq)
                              /\ page_number' = None
                              /\ elapsed' = 0
                              /\ requests' = <<Request(ep, id[1], key[1], sq, None, FALSE)>>
                              /\ response' = NoResponse
                              /\ upstream' = None
                              /\ stop' = ""
                              /\ pc' = "get_single_page:requests.get"
                              /\ clean' = FALSE
                              /\ UNCHANGED <<full, sess>>
                     ELSE /\ Begin("all", ep, id[1], key[1], EnsurePageSize(q))
                          /\ page_number' = Some(1)
                          /\ elapsed' = 0
                          /\ requests' = <<>>
                          /\ response' = NoResponse
                          /\ stop' = ""
                          /\ upstream' = None
                          /\ pc' = "get_all_pages"
                          /\ clean' = TRUE
                          /\ full' = None
                          /\ sess' = NoSession

(* Lines 273-289: the requests.get of get_single_page returns or raises   *)
(* and the response is built.                                              *)
GetSinglePage ==
    /\ pc = "get_single_page:requests.get"
    /\ \E r \in UpstreamResponses(1) :
       \E d \in IF r.kind = "timeout" THEN {Seconds(60)} ELSE Durations :
           /\ elapsed' = elapsed + d
           /\ response' = SingleResult(r)
           /\ upstream' = Some(r)
           /\ stop' = "single"
           /\ pc' = "done"
    /\ UNCHANGED <<all_items, page_number, total_pages, total_api_time, requests,
                   included, minReported, maxReported, dataset, clean, full,
                   actual_end_page, sess>>
    /\ Untouched

(* ------------------------- get_chunked_pages --------------------------- *)
(* request_timeout, lines 642-643. *)
chunk_request_timeout(elapsed_time) ==
    Max(Seconds(30), Min(Seconds(90), (CHUNK_TIMEOUT - elapsed_time) \div 3))

(* Variant: only the test against CHUNK_TIMEOUT. *)
ChunkDeadline_total(elapsed_time) == elapsed_time > CHUNK_TIMEOUT

(* The two deadline tests of lines 626 and 630. *)
ChunkDeadline(elapsed_time) ==
    elapsed_time > CHUNK_TIMEOUT \/ elapsed_time > gateway_timeout_protection

(* end_page, line 572. *)
end_page(sp, cs) == sp + cs - 1

(* actual_end_page, line 612. *)
ActualEndPage(sp, cs, tp) == Min(end_page(sp, cs), tp)

(* Variant: the range one page too long. *)
LastOfRange_over(aep) == aep + 1

(* range(start_page, actual_end_page + 1), line 623: the last value of the loop. *)
LastOfRange(aep) == aep

(* time.sleep of lines 674-679, in ticks. *)
chunk_delay(ep) ==
    IF ep \in {"StockOnHand", "Products"} THEN Seconds(2) \div 10
    ELSE IF ep \in {"SalesOrders"} THEN Seconds(5) \div 100
    ELSE Seconds(1) \div 10

(* pages_retrieved, line 682: len(range(start_page, min(page_number, actual_end_page + 1))). *)
pages_retrieved(sp, pn, aep) == Max(0, Min(pn, aep + 1) - sp)

(* Variant: the comparison off by one. *)
has_more_pages_le(aep, tp) == aep <= tp

(* has_more_pages, line 683. *)
has_more_pages(aep, tp) == aep < tp

(* Variant: the continuation restarts at the last page of the chunk. *)
next_start_page_same(aep, tp) == IF has_more_pages(aep, tp) THEN Some(aep) ELSE None

(* next_start_page, line 684. *)
next_start_page(aep, tp) == IF has_more_pages(aep, tp) THEN Some(aep + 1) ELSE None

(* The exception handler of lines 730-733. *)
ChunkException ==
    [status |-> 500, kind |-> "text", text |-> <<"Chunked pagination error for ">>]

(* Lines 681-728.  With page_number unbound (the loop body never ran) line *)
(* 682 raises UnboundLocalError, which the handler of line 730 turns into  *)
(* a 500 response.                                                         *)
(* TotalItemsAvailable and the Performance strings only echo values and   *)
(* are not part of the record.                                            *)
ChunkResult(items, pn, sp, cs, aep, tp, final_elapsed) ==
    IF pn = None THEN ChunkException
    ELSE [status |-> 200,
          kind |-> "json",
          Items |-> items,
          ChunkInfo |-> [StartPage |-> sp,
                         EndPage |-> Min(pn[1] - 1, aep),
                         RequestedChunkSize |-> cs,
                         PagesRetrieved |-> pages_retrieved(sp, pn[1], aep),
                         ItemsInChunk |-> Len(items),
                         HasMorePages |-> has_more_pages(aep, tp),
                         NextStartPage |-> next_start_page(aep, tp),
                         TotalPages |-> tp,
                         TimedOut |-> final_elapsed > CHUNK_TIMEOUT,
                         GatewayTimeoutProtectionTriggered |->
                             final_elapsed > gateway_timeout_protection],
          Pagination |-> [NumberOfItems |-> Len(items),
                          PageSize |-> Len(items),
                          PageNumber |-> 1,
                          NumberOfPages |-> 1,
                          AutoPaginated |-> TRUE,
                          ChunkedMode |-> TRUE]]

(* The metadata request of lines 580-609 answered by r. *)
MetadataFailure(r) ==
    CASE r.kind \in {"timeout", "exception", "badshape", "nullpages"} -> ChunkException
      [] r.kind = "http" ->
             [status |-> r.status, kind |-> "text",
              text |-> <<"Failed to get dataset info: ", ToString(r.status), " - ">>
                       \o r.text]
      [] OTHER ->
             [status |-> 500, kind |-> "text", text |-> <<"Invalid JSON response: ">>]

(* Lines 648-671 over the locals f: the requests.get for page p answered   *)
(* by r after d ticks and the code up to time.sleep or to the end of the   *)
(* loop.                                                                   *)
ChunkPassOf(f, p, r, d) ==
    LET cur == [all_items |-> f.all_items, elapsed |-> f.elapsed + d,
                response |-> NoResponse, stop |-> ""]
        tp == f.total_pages[1]
        out(items, t) == ChunkResult(items, Some(p), f.start_page, f.chunk_size,
                                     f.actual_end_page, tp, t)
    IN  IF r.kind \in {"exception", "badshape"}
        THEN [cur EXCEPT !.response = ChunkException, !.stop = r.kind]
        ELSE IF r.kind \in {"timeout", "http", "badjson"}
        THEN [cur EXCEPT !.response = out(f.all_items, f.elapsed + d), !.stop = r.kind]
        ELSE IF NoItems(r.items)
        THEN [cur EXCEPT !.response = out(f.all_items, f.elapsed + d), !.stop = "empty"]
        ELSE [cur EXCEPT !.all_items = extend(f.all_items, r.items)]

ChunkPass(p, r, d) == ChunkPassOf(Frame, p, r, d)

(* time.sleep of lines 674-679 and what follows it: the next pass of the   *)
(* loop or, after the last page of the range, lines 681-728.               *)
ChunkSleepOf(f) ==
    LET t == f.elapsed + chunk_delay(f.endpoint)
    IN  IF f.page_number[1] = LastOfRange(f.actual_end_page)
        THEN [elapsed |-> t,
              response |-> ChunkResult(f.all_items, f.page_number, f.start_page,
                                       f.chunk_size, f.actual_end_page,
                                       f.total_pages[1], t),
              stop |-> "range_done"]
        ELSE [elapsed |-> t, response |-> NoResponse, stop |-> ""]

(* The pass that stops on a deadline test, lines 625-632. *)
ChunkDeadlinePassOf(f, p) ==
    [all_items |-> f.all_items, elapsed |-> f.elapsed,
     response |-> ChunkResult(f.all_items, Some(p), f.start_page, f.chunk_size,
                              f.actual_end_page, f.total_pages[1], f.elapsed),
     stop |-> "deadline"]

ChunkDeadlinePass(p) == ChunkDeadlinePassOf(Frame, p)

(* ------------------------- the client's session ------------------------ *)
(* A client that has the Items of a complete get_all_pages call starts a   *)
(* continuation session with startPage=1 and goes on with the              *)
(* NextStartPage of the previous chunk.                                    *)
SessAtCall(sp, cs) ==
    IF full # None /\ sp = 1
    THEN [state |-> "open", cs |-> cs, next |-> 1, items |-> <<>>, nexts |-> <<>>]
    ELSE IF sess.state = "open" /\ sp = sess.next /\ cs = sess.cs THEN sess
    ELSE NoSession

SessAfter(s, resp, isClean, n) ==
    IF s.state # "open" THEN s
    ELSE IF resp.status = 200 /\ isClean /\ full # None /\ n = Some(full[1].N)
    THEN [state |-> IF resp.ChunkInfo.HasMorePages THEN "open" ELSE "closed",
          cs |-> s.cs,
          next |-> IF resp.ChunkInfo.NextStartPage = None THEN 0
                   ELSE resp.ChunkInfo.NextStartPage[1],
          items |-> s.items \o resp.Items,
          nexts |-> Append(s.nexts, resp.ChunkInfo.NextStartPage)]
    ELSE NoSession

(* ----------------------- call_unleashed_api_chunked -------------------- *)
(* int(text): the decimal numerals the inputs can hold. *)
IsInt(tok) == \E n \in 0..99 : ToString(n) = tok
IntOf(tok) == CHOOSE n \in 0..99 : ToString(n) = tok

(* The first parameter that starts with key, as the for loops of lines     *)
(* 529-532 and 538-541 find it; None when no parameter does.               *)
FirstParam(q, key) ==
    LET ps == Split(q, "&")
        hits == {i \in 1..Len(ps) : StartsWith(ps[i], <<key>>)}
    IN  IF hits = {} THEN None
        ELSE Some(ps[CHOOSE i \in hits : \A j \in hits : i =< j])

(* param.split('=')[1] *)
ValueOf(param) == IF Len(param) >= 2 THEN param[2] ELSE ""

(* Lines 534 and 543. *)
RemoveParam(q, key) == Join(Filter(Split(q, "&"), <<key>>), "&")

(* Lines 511-543: start_page, chunk_size and the remaining query string;   *)
(* ok is FALSE when int() raises ValueError.                               *)
ParseChunkParams(q, ep) ==
    LET hasStart == Contains(q, <<"startPage=">>)
        sparam == IF hasStart THEN FirstParam(q, "startPage=") ELSE None
        q2 == IF hasStart THEN RemoveParam(q, "startPage=") ELSE q
        hasChunk == Contains(q2, <<"chunkSize=">>)
        cparam == IF hasChunk THEN FirstParam(q2, "chunkSize=") ELSE None
        q3 == IF hasChunk THEN RemoveParam(q2, "chunkSize=") ELSE q2
        sok == sparam = None \/ IsInt(ValueOf(sparam[1]))
        cok == cparam = None \/ IsInt(ValueOf(cparam[1]))
    IN  [ok |-> sok /\ cok,
         start_page |-> IF sparam # None /\ sok THEN IntOf(ValueOf(sparam[1])) ELSE 1,
         chunk_size |-> IF cparam # None /\ cok THEN IntOf(ValueOf(cparam[1]))
                        ELSE endpoint_defaults(ep),
         query_string |-> q3]

ParseFailure ==
    [status |-> 500, kind |-> "text", text |-> <<"Error processing chunked ">>]

ChunkBases ==
    { <<>>,
      <<"code=", "K", "&", "pageSize=", "500">>,
      <<"sort=", "z", "&", "code=", "K", "&", "filter=", "x">> }

(* The inbound query string of a chunked call. *)
ChunkRaw(base, sp, cs) ==
    Join((IF base = <<>> THEN <<>> ELSE <<base>>)
         \o (IF sp = None THEN <<>> ELSE << <<"startPage=", ToString(sp[1])>> >>)
         \o (IF cs = None THEN <<>> ELSE << <<"chunkSize=", ToString(cs[1])>> >>),
         "&")

CallUnleashedApiChunked ==
    /\ UNCHANGED inv
    /\ pc = "idle"
    /\ \E ep \in Endpoints, env \in Environments, base \in ChunkBases,
          sp \in {None} \cup {Some(n) : n \in 1..MaxStart},
          cs \in {None} \cup {Some(n) : n \in 0..MaxChunk} :
         LET id == env[1]
             key == env[2]
             prm == ParseChunkParams(StripCode(ChunkRaw(base, sp, cs)), ep)
             q == EnsurePageSize(prm.query_string)
         IN  /\ environ' = env
             /\ filters' = InboundFilters(ChunkRaw(base, sp, cs))
             /\ opt_out' = AsksSinglePage(ChunkRaw(base, sp, cs))
             /\ IF CredentialsMissing(id, key) \/ ~prm.ok
                THEN /\ Begin("none", "", None, None, <<>>)
                     /\ page_number' = None
                     /\ elapsed' = 0
                     /\ requests' = <<>>
                     /\ response' = IF CredentialsMissing(id, key)
                                    THEN CredentialsResponse ELSE ParseFailure
                     /\ stop' = IF CredentialsMissing(id, key)
                                THEN "credentials" ELSE "exception"
                     /\ upstream' = None
                     /\ pc' = "done"
                     /\ clean' = FALSE
                     /\ UNCHANGED <<full, sess>>
                ELSE /\ mode' = "chunked"
                     /\ endpoint' = ep
                     /\ api_id' = id[1]
                     /\ api_key' = key[1]
                     /\ query_string' = q
                     /\ all_items' = <<>>
                     /\ page_number' = None
                     /\ total_pages' = None
                     /\ total_api_time' = 0
                     /\ elapsed' = 0
                     /\ start_page' = prm.start_page
                     /\ chunk_size' = prm.chunk_size
                     /\ actual_end_page' = 0
                     /\ requests' = <<Request(ep, id[1], key[1],
                                              page_query(q, 1), Some(1), TRUE)>>
                     /\ included' = <<>>
                     /\ upstream' = None
                     /\ response' = NoResponse
                     /\ stop' = ""
                     /\ pc' = "get_chunked_pages:metadata"
                     /\ minReported' = None
                     /\ maxReported' = None
                     /\ dataset' = None
                     /\ clean' = TRUE
                     /\ UNCHANGED <<full, sess>>

(* Lines 594-621: the metadata requests.get returns or raises; total_pages *)
(* and actual_end_page are set, and with an empty range lines 681-733 run. *)
GetChunkedPagesMetadata ==
    /\ pc = "get_chunked_pages:metadata"
    /\ \E r \in UpstreamResponses(1) :
       \E d \in IF r.kind = "timeout" THEN {Seconds(60)} ELSE Durations :
           LET tp == NumberOfPages(r)
               aep == ActualEndPage(start_page, chunk_size, tp)
               failed == r.kind # "ok"
               noLoop == ~failed /\ start_page > LastOfRange(aep)
               resp == IF failed THEN MetadataFailure(r)
                       ELSE IF noLoop
                       THEN ChunkResult(<<>>, None, start_page, chunk_size, aep, tp,
                                        elapsed + d)
                       ELSE NoResponse
               isClean == FromDataset(r, 1)
           IN  /\ total_pages' = IF failed THEN None ELSE Some(tp)
               /\ elapsed' = elapsed + d
               /\ actual_end_page' = IF failed THEN 0 ELSE aep
               /\ upstream' = Some(r)
               /\ response' = resp
               /\ stop' = IF failed THEN "metadata"
                          ELSE IF noLoop THEN "exception" ELSE ""
               /\ pc' = IF failed \/ noLoop THEN "done" ELSE "get_chunked_pages"
               /\ minReported' = IF failed THEN None ELSE Some(tp)
               /\ maxReported' = IF failed THEN None ELSE Some(tp)
               /\ dataset' = IF failed THEN None ELSE r.pages
               /\ clean' = isClean
               /\ sess' = IF ~failed /\ ~noLoop /\ isClean
                           THEN SessAtCall(start_page, chunk_size)
                           ELSE SessAfter(SessAtCall(start_page, chunk_size),
                                          resp, isClean, r.pages)
    /\ UNCHANGED <<all_items, page_number, total_api_time, requests, included, full>>
    /\ Untouched

(* Lines 623-648: the next page of the range, the two deadline tests and,  *)
(* when they pass, the request sent; the code then waits in requests.get.  *)
GetChunkedPagesRequest ==
    /\ pc = "get_chunked_pages"
    /\ LET p == IF page_number = None THEN start_page ELSE page_number[1] + 1
       IN  /\ page_number' = Some(p)
           /\ IF ChunkDeadline(elapsed)
              THEN LET n == ChunkDeadlinePass(p)
                   IN  /\ response' = n.response
                       /\ stop' = n.stop
                       /\ pc' = "done"
                       /\ clean' = FALSE
                       /\ sess' = SessAfter(sess, n.response, FALSE, dataset)
                       /\ UNCHANGED requests
              ELSE /\ requests' = Append(requests,
                          Request(endpoint, api_id, api_key,
                                  page_query(query_string, p), Some(p), FALSE))
                   /\ pc' = "get_chunked_pages:requests.get"
                   /\ UNCHANGED <<response, stop, clean, sess>>
    /\ UNCHANGED <<all_items, total_pages, total_api_time, elapsed, included,
                   upstream, minReported, maxReported, dataset, actual_end_page, full>>
    /\ Untouched

(* Lines 648-671: requests.get returns or raises and the answer is dealt   *)
(* with, up to time.sleep or to the return.                                *)
GetChunkedPagesAnswer ==
    /\ pc = "get_chunked_pages:requests.get"
    /\ \E r \in UpstreamResponses(page_number[1]) :
       \E d \in IF r.kind = "timeout"
                THEN {chunk_request_timeout(elapsed)}
                ELSE Durations :
           LET p == page_number[1]
               n == ChunkPass(p, r, d)
               isClean == clean /\ FromDataset(r, p)
           IN  /\ all_items' = n.all_items
               /\ elapsed' = n.elapsed
               /\ response' = n.response
               /\ stop' = n.stop
               /\ pc' = IF n.stop = "" THEN "get_chunked_pages:time.sleep" ELSE "done"
               /\ included' = IF n.all_items # all_items
                              THEN Append(included, p) ELSE included
               /\ upstream' = Some(r)
               /\ minReported' = ReportedMin(r)
               /\ maxReported' = ReportedMax(r)
               /\ dataset' = DatasetAfter(r)
               /\ clean' = isClean
               /\ sess' = IF n.stop = "" /\ isClean THEN sess
                          ELSE SessAfter(sess, n.response, isClean, dataset)
    /\ UNCHANGED <<page_number, total_pages, total_api_time, requests,
                   actual_end_page, full>>
    /\ Untouched

(* Lines 674-679: the wait in time.sleep, then the next pass or, after the *)
(* last page of the range, the response of lines 681-728.                  *)
GetChunkedPagesSleep ==
    /\ pc = "get_chunked_pages:time.sleep"
    /\ LET n == ChunkSleepOf(Frame)
       IN  /\ elapsed' = n.elapsed
           /\ response' = n.response
           /\ stop' = n.stop
           /\ pc' = IF n.stop = "" THEN "get_chunked_pages" ELSE "done"
           /\ sess' = IF n.stop = "" THEN sess
                      ELSE SessAfter(sess, n.response, clean, dataset)
    /\ UNCHANGED <<all_items, page_number, total_pages, total_api_time, requests,
                   included, upstream, minReported, maxReported, dataset, clean,
                   actual_end_page, full>>
    /\ Untouched

(* One pass of the for loop, lines 623-679, in its three steps. *)
GetChunkedPagesIteration ==
    \/ GetChunkedPagesRequest
    \/ GetChunkedPagesAnswer
    \/ GetChunkedPagesSleep

(* ------------------------ unleashed_dataset_info ----------------------- *)
(* The endpoint_info table of lines 85-170: recommendedChunkSize. *)
recommendedChunkSize(ep) ==
    CASE ep = "SalesOrders" -> 15
      [] ep = "StockOnHand" -> 15
      [] ep = "Products" -> 10
      [] ep = "Customers" -> 30
      [] ep = "Invoices" -> 25
      [] ep = "CreditNotes" -> 20
      [] ep = "PurchaseOrders" -> 20
      [] OTHER -> 15

ResourceTypes ==
    {"SalesOrders", "StockOnHand", "Products", "Customers", "Invoices",
     "CreditNotes", "PurchaseOrders"}

(* The result of lines 185-208. *)
DatasetInfoResult(ep) ==
    [status |-> 200,
     kind |-> "json",
     endpoint |-> ep,
     info |-> [recommendedChunkSize |-> recommendedChunkSize(ep),
               estimatedItemsPerChunk |-> recommendedChunkSize(ep) * 1000,
               chunkedEndpoint |-> <<"/Unleashed", ep, "Chunked">>]]

(* The route UnleashedDatasetInfo; prm is the endpoint parameter of the    *)
(* request, None when the request has none.                               *)
UnleashedDatasetInfo ==
    /\ UNCHANGED inv
    /\ pc = "idle"
    /\ \E prm \in {None} \cup {Some(ep) : ep \in ResourceTypes} :
         LET ep == IF prm = None THEN "SalesOrders" ELSE prm[1]
         IN  /\ Begin("info", ep, None, None, <<>>)
             /\ page_number' = None
             /\ elapsed' = 0
             /\ requests' = <<>>
             /\ response' = DatasetInfoResult(ep)
             /\ stop' = "info"
             /\ upstream' = None
             /\ pc' = "done"
             /\ clean' = FALSE
             /\ environ' = <<None, None>>
             /\ filters' = <<>>
             /\ opt_out' = FALSE
             /\ UNCHANGED <<full, sess>>

(* The route function hands the response to the host; the invocation's    *)
(* locals are discarded, only what the client holds survives.             *)
Return ==
    /\ UNCHANGED inv
    /\ pc = "done"
    /\ pc' = "idle"
    /\ Begin("none", "", None, None, <<>>)
    /\ page_number' = None
    /\ elapsed' = 0
    /\ requests' = <<>>
    /\ response' = NoResponse
    /\ stop' = ""
    /\ upstream' = None
    /\ clean' = FALSE
    /\ environ' = <<None, None>>
    /\ filters' = <<>>
    /\ opt_out' = FALSE
    /\ UNCHANGED <<full, sess>>

(* ------------------------ concurrent invocations ----------------------- *)
(* The host runs route functions side by side.  Every name the handlers    *)
(* assign (all_items, page_number, total_pages, start_time, ...) is a      *)
(* local of the call at lines 291-297 and 553-558; the module holds no     *)
(* container and no global statement.  inv[i] is the frame of invocation   *)
(* i: its position, its locals, its response, and as history its inbound   *)
(* request, the upstream answers it received and whether it took a step    *)
(* while the other invocation was in flight.                               *)
Invocations == {1, 2}

(* Where a handler can be between two steps: at the top of a loop (lines   *)
(* 318, 623), waiting in requests.get (lines 273, 355, 594, 648) or in     *)
(* time.sleep (lines 441, 675-679).                                        *)
Tops == {"get_all_pages", "get_chunked_pages"}
Waits == {"get_single_page:requests.get", "get_chunked_pages:metadata",
          "get_all_pages:requests.get", "get_chunked_pages:requests.get"}
Sleeps == {"get_all_pages:time.sleep", "get_chunked_pages:time.sleep"}

FreshFrame ==
    [endpoint |-> "", query_string |-> <<>>, all_items |-> <<>>,
     page_number |-> None, total_pages |-> None, total_api_time |-> 0,
     elapsed |-> 0, start_page |-> 1, chunk_size |-> 0, actual_end_page |-> 0]

IdleInvocation ==
    [pc |-> "idle", input |-> None, frame |-> FreshFrame, response |-> NoResponse,
     answers |-> <<>>, overlapped |-> FALSE]

InFlight == Tops \cup Waits \cup Sleeps

(* Inbound requests: the route, the query string and the settings found.  *)
ConcInputs ==
    {[route |-> rt, raw |-> raw, env |-> env] :
        rt \in {"api"},
        raw \in {<<>>, <<"filter=", "x", "&", "code=", "K", "&", "singlePage=", "true">>},
        env \in {<<Some("id"), Some("secret")>>, <<None, Some("secret")>>}}
    \cup
    {[route |-> rt, raw |-> raw, env |-> env] :
        rt \in {"chunked"},
        raw \in {ChunkRaw(<<>>, Some(1), Some(2)), ChunkRaw(<<>>, Some(2), Some(1)),
                 ChunkRaw(<<>>, Some(3), Some(1))},
        env \in {<<Some("id"), Some("secret")>>}}

ConcResponses(p) ==
    {r \in UpstreamResponses(p) :
        \/ r.kind = "timeout"
        \/ r.kind = "exception"
        \/ r.kind = "http" /\ r.status = 500
        \/ r.kind = "ok" /\ r.pages = Some(ConcTotal)}

(* call_unleashed_api (lines 214-248) and call_unleashed_api_chunked       *)
(* (lines 488-546) up to the first wait or the return.                     *)
Started(input) ==
    LET id == input.env[1]
        key == input.env[2]
        ep == "Products"
        q == StripCode(input.raw)
        prm == ParseChunkParams(q, ep)
        st == [IdleInvocation EXCEPT !.input = Some(input)]
    IN  IF CredentialsMissing(id, key)
        THEN [st EXCEPT !.pc = "done", !.response = CredentialsResponse]
        ELSE IF input.route = "api"
        THEN IF Contains(q, <<"singlePage=", "true">>)
             THEN [st EXCEPT !.pc = "get_single_page:requests.get",
                             !.frame.endpoint = ep,
                             !.frame.query_string = SinglePageSize(StripSinglePage(q))]
             ELSE [st EXCEPT !.pc = "get_all_pages",
                             !.frame.endpoint = ep,
                             !.frame.query_string = EnsurePageSize(q),
                             !.frame.page_number = Some(1)]
        ELSE IF ~prm.ok
        THEN [st EXCEPT !.pc = "done", !.response = ParseFailure]
        ELSE [st EXCEPT !.pc = "get_chunked_pages:metadata",
                        !.frame.endpoint = ep,
                        !.frame.query_string = EnsurePageSize(prm.query_string),
                        !.frame.start_page = prm.start_page,
                        !.frame.chunk_size = prm.chunk_size]

(* The page of the for loop's next pass. *)
NextOfRange(f) == IF f.page_number = None THEN f.start_page ELSE f.page_number[1] + 1

(* The timeout passed to the requests.get the invocation waits in, lines   *)
(* 268, 348, 594, 643.                                                     *)
TimeoutOf(st) ==
    CASE st.pc = "get_all_pages:requests.get" ->
             all_request_timeout(FUNCTION_TIMEOUT - st.frame.elapsed)
      [] st.pc = "get_chunked_pages:requests.get" ->
             chunk_request_timeout(st.frame.elapsed)
      [] OTHER -> Seconds(60)

(* The page the requests.get the invocation waits in asked for. *)
PageAsked(st) ==
    IF st.pc \in {"get_all_pages:requests.get", "get_chunked_pages:requests.get"}
    THEN st.frame.page_number[1]
    ELSE 1

(* From the top of either loop to its requests.get, or to the return when  *)
(* the deadline test stops the loop (lines 318-355, 623-648).              *)
StepRequest(st) ==
    IF st.pc = "get_all_pages"
    THEN IF AllDeadline(st.frame.elapsed)
         THEN [st EXCEPT !.pc = "done",
                         !.response = AllDeadlinePassOf(st.frame).response]
         ELSE [st EXCEPT !.pc = "get_all_pages:requests.get"]
    ELSE LET p == NextOfRange(st.frame)
         IN  IF ChunkDeadline(st.frame.elapsed)
             THEN [st EXCEPT !.pc = "done",
                             !.frame.page_number = Some(p),
                             !.response = ChunkDeadlinePassOf(st.frame, p).response]
             ELSE [st EXCEPT !.pc = "get_chunked_pages:requests.get",
                             !.frame.page_number = Some(p)]

(* The requests.get the invocation waits in answered by r after d ticks,   *)
(* and the code that follows up to the next wait or the return.            *)
StepAnswer(st, r, d) ==
    CASE st.pc = "get_single_page:requests.get" ->
             [st EXCEPT !.pc = "done", !.frame.elapsed = @ + d,
                        !.response = SingleResult(r)]
      [] st.pc = "get_chunked_pages:metadata" ->
             LET f == st.frame
                 tp == NumberOfPages(r)
                 aep == ActualEndPage(f.start_page, f.chunk_size, tp)
             IN  IF r.kind # "ok"
                 THEN [st EXCEPT !.pc = "done", !.frame.elapsed = @ + d,
                                 !.response = MetadataFailure(r)]
                 ELSE IF f.start_page > LastOfRange(aep)
                 THEN [st EXCEPT !.pc = "done", !.frame.elapsed = @ + d,
                                 !.frame.total_pages = Some(tp),
                                 !.frame.actual_end_page = aep,
                                 !.response = ChunkResult(<<>>, None, f.start_page,
                                                          f.chunk_size, aep, tp,
                                                          f.elapsed + d)]
                 ELSE [st EXCEPT !.pc = "get_chunked_pages", !.frame.elapsed = @ + d,
                                 !.frame.total_pages = Some(tp),
                                 !.frame.actual_end_page = aep]
      [] st.pc = "get_all_pages:requests.get" ->
             LET n == AllPassOf(st.frame, r, d)
             IN  [st EXCEPT !.pc = IF n.stop = "" THEN "get_all_pages:time.sleep"
                                   ELSE "done",
                            !.frame.all_items = n.all_items,
                            !.frame.page_number = n.page_number,
                            !.frame.total_pages = n.total_pages,
                            !.frame.total_api_time = n.total_api_time,
                            !.frame.elapsed = n.elapsed,
                            !.response = n.response]
      [] OTHER ->
             LET n == ChunkPassOf(st.frame, st.frame.page_number[1], r, d)
             IN  [st EXCEPT !.pc = IF n.stop = "" THEN "get_chunked_pages:time.sleep"
                                   ELSE "done",
                            !.frame.all_items = n.all_items,
                            !.frame.elapsed = n.elapsed,
                            !.response = n.response]

(* The invocation wakes from time.sleep (lines 441, 675-679) and runs to   *)
(* the top of its loop or to the return.                                   *)
StepSleep(st) ==
    IF st.pc = "get_all_pages:time.sleep"
    THEN [st EXCEPT !.pc = "get_all_pages", !.frame.elapsed = AllSleepOf(st.frame)]
    ELSE LET n == ChunkSleepOf(st.frame)
         IN  [st EXCEPT !.pc = IF n.stop = "" THEN "get_chunked_pages" ELSE "done",
                        !.frame.elapsed = n.elapsed,
                        !.response = n.response]

(* Variant: all_items kept in one module-level list that every invocation  *)
(* reads.                                                                  *)
Locals_shared(i) == [inv[i] EXCEPT !.frame.all_items = inv[1].frame.all_items]

(* What the code of invocation i reads: the frame of its own call. *)
Locals(i) == inv[i]

MainIdle ==
    /\ pc = "idle"
    /\ UNCHANGED <<pc, mode, endpoint, api_id, api_key, query_string, all_items,
                   page_number, total_pages, total_api_time, elapsed, start_page,
                   chunk_size, actual_end_page, response, requests, included, stop,
                   upstream, minReported, maxReported, dataset, clean, full, sess,
                   environ, filters, opt_out>>

(* The host dispatches an inbound request to a new invocation. *)
ConcStart(i) ==
    /\ MainIdle
    /\ inv[i].pc = "idle"
    /\ \E input \in ConcInputs : inv' = [inv EXCEPT ![i] = Started(input)]

(* Has invocation i run while the other was in flight with an answer? *)
Overlapped(i) ==
    \/ inv[i].overlapped
    \/ \E j \in Invocations \ {i} : inv[j].pc \in InFlight /\ inv[j].answers # <<>>

(* Invocation i runs from the top of its loop to its requests.get (or to   *)
(* its return) while the other invocation is wherever it is.               *)
ConcRequest(i) ==
    /\ MainIdle
    /\ inv[i].pc \in Tops
    /\ inv' = [inv EXCEPT ![i] =
                  [StepRequest(Locals(i)) EXCEPT !.overlapped = Overlapped(i)]]

(* The requests.get invocation i waits in returns or raises, and the       *)
(* invocation runs to its next wait or to its return.                      *)
ConcAnswer(i) ==
    /\ MainIdle
    /\ inv[i].pc \in Waits
    /\ LET st == Locals(i)
       IN  \E r \in ConcResponses(PageAsked(st)) :
           \E d \in IF r.kind = "timeout" THEN {TimeoutOf(st)} ELSE Durations :
              inv' = [inv EXCEPT ![i] =
                         [StepAnswer(st, r, d) EXCEPT
                             !.answers = Append(inv[i].answers, <<r, d>>),
                             !.overlapped = Overlapped(i)]]

(* The time.sleep invocation i waits in is over. *)
ConcSleep(i) ==
    /\ MainIdle
    /\ inv[i].pc \in Sleeps
    /\ inv' = [inv EXCEPT ![i] =
                  [StepSleep(Locals(i)) EXCEPT !.overlapped = Overlapped(i)]]

(* One step of invocation i, from one wait of the code to the next. *)
ConcStep(i) ==
    \/ ConcRequest(i)
    \/ ConcAnswer(i)
    \/ ConcSleep(i)

(* The response goes to the host and the frame of the call is gone. *)
ConcReturn(i) ==
    /\ MainIdle
    /\ inv[i].pc = "done"
    /\ inv' = [inv EXCEPT ![i] = IdleInvocation]

(* ---------------------------- specification ---------------------------- *)
Init ==
    /\ pc = "idle"
    /\ mode = "none"
    /\ endpoint = ""
    /\ api_id = None
    /\ api_key = None
    /\ query_string = <<>>
    /\ all_items = <<>>
    /\ page_number = None
    /\ total_pages = None
    /\ total_api_time = 0
    /\ elapsed = 0
    /\ start_page = 1
    /\ chunk_size = 0
    /\ actual_end_page = 0
    /\ response = NoResponse
    /\ requests = <<>>
    /\ included = <<>>
    /\ stop = ""
    /\ upstream = None
    /\ minReported = None
    /\ maxReported = None
    /\ dataset = None
    /\ clean = FALSE
    /\ full = None
    /\ sess = NoSession
    /\ environ = <<None, None>>
    /\ filters = <<>>
    /\ opt_out = FALSE
    /\ inv = [i \in Invocations |-> IdleInvocation]

Next ==
    \/ CallUnleashedApi
    \/ GetSinglePage
    \/ GetAllPagesIteration
    \/ CallUnleashedApiChunked
    \/ GetChunkedPagesMetadata
    \/ GetChunkedPagesIteration
    \/ UnleashedDatasetInfo
    \/ Return

Spec == Init /\ [][Next]_vars

FairSpec ==
    /\ Spec
    /\ WF_vars(GetSinglePage)
    /\ WF_vars(GetAllPagesIteration)
    /\ WF_vars(GetChunkedPagesMetadata)
    /\ WF_vars(GetChunkedPagesIteration)

(* Two invocations in flight at once, every interleaving of their steps. *)
ConcNext ==
    \/ \E i \in Invocations : ConcStart(i)
    \/ \E i \in Invocations : ConcStep(i)
    \/ \E i \in Invocations : ConcReturn(i)

ConcSpec == Init /\ [][ConcNext]_vars

(* -------------------------- timing specification ----------------------- *)
(* The same two loops entered at every elapsed time of a 10 s grid: the    *)
(* state of get_all_pages when the first page (of MaxTotal) was answered   *)
(* and the loop is back at line 320 after g ticks, and the state of        *)
(* get_chunked_pages when the metadata request of line 594 was answered    *)
(* after g ticks and the for loop of line 623 starts.                      *)
ProbeTimes == {Seconds(10 * k) : k \in 1..ProbeSteps}

ProbeFirst == [kind |-> "ok", status |-> 200, items |-> ItemsOfPage(1),
               pages |-> Some(MaxTotal)]

ProbeCommon ==
    /\ endpoint = "Products"
    /\ api_id = "id"
    /\ api_key = "secret"
    /\ query_string = EnsurePageSize(<<>>)
    /\ total_pages = Some(MaxTotal)
    /\ response = NoResponse
    /\ stop = ""
    /\ upstream = Some(ProbeFirst)
    /\ minReported = Some(MaxTotal)
    /\ maxReported = Some(MaxTotal)
    /\ dataset = Some(MaxTotal)
    /\ clean = TRUE
    /\ full = None
    /\ sess = NoSession
    /\ environ = <<Some("id"), Some("secret")>>
    /\ filters = <<>>
    /\ opt_out = FALSE
    /\ inv = [i \in Invocations |-> IdleInvocation]

ProbeInit ==
    /\ ProbeCommon
    /\ \E g \in ProbeTimes :
         \/ /\ pc = "get_all_pages"
            /\ mode = "all"
            /\ all_items = ItemsOfPage(1)
            /\ page_number = Some(2)
            /\ total_api_time = g - Seconds(5) \div 10
            /\ elapsed = g
            /\ start_page = 1
            /\ chunk_size = 0
            /\ actual_end_page = 0
            /\ requests = <<Request("Products", "id", "secret",
                                    page_query(EnsurePageSize(<<>>), 1), Some(1), FALSE)>>
            /\ included = <<1>>
         \/ /\ pc = "get_chunked_pages"
            /\ mode = "chunked"
            /\ all_items = <<>>
            /\ page_number = None
            /\ total_api_time = 0
            /\ elapsed = g
            /\ start_page = 1
            /\ chunk_size = MaxChunk
            /\ actual_end_page = ActualEndPage(1, MaxChunk, MaxTotal)
            /\ requests = <<Request("Products", "id", "secret",
                                    page_query(EnsurePageSize(<<>>), 1), Some(1), TRUE)>>
            /\ included = <<>>

ProbeNext ==
    \/ GetAllPagesIteration
    \/ GetChunkedPagesIteration
    \/ Return

ProbeSpec == ProbeInit /\ [][ProbeNext]_vars

(* ------------------------------ properties ----------------------------- *)
Paginating == mode \in {"all", "chunked"}
Answered == upstream # None /\ pc \notin Waits
Fetched == Len(requests) - (IF pc \in Waits THEN 1 ELSE 0)
LastPage == Last(requests).page[1]
FirstPage == IF mode = "all" THEN 1 ELSE start_page

(* The text after "?" in a URL. *)
QueryOfUrl(url) ==
    LET i == CHOOSE k \in 1..Len(url) : url[k] = "?" /\ \A j \in 1..(k - 1) : url[j] # "?"
    IN  SubSeq(url, i + 1, Len(url))

(* C1: every upstream request (single page, all pages, chunk pages and the *)
(* chunk's metadata request) carries the signature of exactly the query    *)
(* string of its URL, and that query string holds the page number asked.   *)
C1_SignedIsSent ==
    \A i \in 1..Len(requests) :
        /\ \E k \in 1..Len(requests[i].url) : requests[i].url[k] = "?"
        /\ requests[i].headers.api_auth_signature
               = generate_signature(QueryOfUrl(requests[i].url), api_key)
        /\ requests[i].page # None =>
               Contains(QueryOfUrl(requests[i].url),
                        <<"pageNumber=", ToString(requests[i].page[1])>>)

C1_Witness ==
    /\ mode = "chunked"
    /\ Len(requests) >= 3
    /\ requests[1].meta
    /\ requests[3].page = Some(2)
    /\ Contains(query_string, <<"pageSize=", "500">>)

(* C2: over a fixed dataset, with no failure and no deadline stop, the     *)
(* chunks a client gets by echoing NextStartPage are consecutive page runs *)
(* of the get_all_pages result, and when HasMorePages turns false their    *)
(* concatenation is that whole result and NextStartPage is null; 5 pages   *)
(* in chunks of 2 give NextStartPage 3, 5, null.                           *)
C2_ChunksEqualFullFetch ==
    /\ sess.state = "open" =>
           /\ full # None
           /\ sess.next >= 1
           /\ sess.next =< full[1].N
           /\ sess.items = SubSeq(full[1].Items, 1, (sess.next - 1) * PageLen)
           /\ \A i \in 1..Len(sess.nexts) : sess.nexts[i] # None
    /\ sess.state = "closed" =>
           /\ full # None
           /\ sess.items = full[1].Items
           /\ Last(sess.nexts) = None
           /\ \A i \in 1..(Len(sess.nexts) - 1) : sess.nexts[i] # None
           /\ (full[1].N = 5 /\ sess.cs = 2) =>
                  sess.nexts = <<Some(3), Some(5), None>>

C2_Witness ==
    /\ sess.state = "closed"
    /\ full # None
    /\ full[1].N = 5
    /\ sess.cs = 2
    /\ Len(sess.nexts) = 3
    /\ Len(sess.items) = 5 * PageLen

(* C3: a 200 chunk response with HasMorePages=true has NextStartPage one   *)
(* past the last page whose items it holds, whether the loop stopped on    *)
(* the page limit, the deadline test, a timeout, a non-200 or bad JSON.    *)
C3_NextIsOnePastLastFetched ==
    (/\ pc = "done"
     /\ mode = "chunked"
     /\ response.status = 200
     /\ stop \in {"range_done", "deadline"} \cup Failures
     /\ response.ChunkInfo.HasMorePages)
    => response.ChunkInfo.NextStartPage
           = Some(IF included = <<>> THEN start_page ELSE Last(included) + 1)

(* C4: in get_all_pages a failed fetch of page k > 1 ends the invocation   *)
(* with status 200 and the items of pages 1..k-1, page k being the last    *)
(* request.                                                                *)
C4_LaterFailureIsPartial ==
    (/\ mode = "all"
     /\ Answered
     /\ upstream[1].kind \in Failures
     /\ LastPage > 1)
    => /\ pc = "done"
       /\ response.status = 200
       /\ response.Items = ItemsOfPages(1, LastPage - 1)
       /\ Len(requests) = LastPage
       /\ \A i \in 1..Len(requests) : requests[i].page = Some(i)

C4_Witness ==
    /\ mode = "all"
    /\ Answered
    /\ upstream[1].kind = "http"
    /\ LastPage = 3
    /\ response.status = 200
    /\ Len(response.Items) = 2 * PageLen

(* C5: in get_all_pages a failed fetch of page 1 ends the invocation with  *)
(* a non-200 response without Items, page 1 being the only request.        *)
C5_FirstFailureIsFatal ==
    (/\ mode = "all"
     /\ Answered
     /\ upstream[1].kind \in Failures
     /\ LastPage = 1)
    => /\ pc = "done"
       /\ response.status # 200
       /\ "Items" \notin DOMAIN response
       /\ Len(requests) = 1

C5_Witness ==
    /\ mode = "all"
    /\ Answered
    /\ upstream[1].kind = "timeout"
    /\ LastPage = 1
    /\ response.status = 408

(* C6: in get_chunked_pages a failed fetch of page startPage, before any   *)
(* page gave items, ends the invocation with a non-200 response.           *)
C6_ChunkFirstFailureIsFatal ==
    (/\ mode = "chunked"
     /\ Answered
     /\ upstream[1].kind \in Failures
     /\ ~Last(requests).meta
     /\ LastPage = start_page
     /\ included = <<>>)
    => /\ pc = "done"
       /\ response.status # 200

(* C7: a 200 response of get_all_pages that stopped on the deadline test   *)
(* or on a later-page failure with fewer pages than the last successful    *)
(* page reported has Pagination.Truncated = true.                          *)
C7_PartialIsFlagged ==
    (/\ pc = "done"
     /\ mode = "all"
     /\ response.status = 200
     /\ stop \in {"deadline"} \cup Failures
     /\ total_pages # None
     /\ Len(included) < total_pages[1])
    => response.Pagination.Truncated

(* C8: in both engines an empty page k answered with status 200 ends the   *)
(* invocation: the response is 200 with the items of the pages before k    *)
(* and no page beyond k was requested, whatever page count was claimed.    *)
C8_EmptyPageStops ==
    (/\ Paginating
     /\ Answered
     /\ upstream[1].kind = "ok"
     /\ upstream[1].items = <<>>
     /\ ~Last(requests).meta)
    => /\ pc = "done"
       /\ response.status = 200
       /\ response.Items = ItemsOfPages(FirstPage, LastPage - 1)
       /\ \A i \in 1..Len(requests) : requests[i].page[1] =< LastPage

C8_Witness ==
    /\ mode = "chunked"
    /\ Answered
    /\ upstream[1].kind = "ok"
    /\ upstream[1].items = <<>>
    /\ upstream[1].pages = Some(MaxTotal)
    /\ LastPage = start_page + 1
    /\ LastPage < total_pages[1]
    /\ response.status = 200
    /\ Len(response.Items) = PageLen

(* C9 as stated: once any successful response has reported NumberOfPages   *)
(* = T, no later request of the invocation asks for a page beyond T.       *)
C9_NoRequestBeyondAnyReportedTotal ==
    [][(Len(requests') > Len(requests) /\ minReported # None)
          => Last(requests').page[1] =< minReported[1]]_vars

(* C9 amended: no request asks for a page beyond the page count the engine *)
(* holds in total_pages: the one of the latest page with items in          *)
(* get_all_pages, the one of the metadata request in get_chunked_pages.    *)
C9_NoRequestBeyondKnownTotal ==
    [][(Len(requests') > Len(requests) /\ total_pages # None)
          => Last(requests').page[1] =< total_pages[1]]_vars

C9_Witness ==
    /\ pc = "done"
    /\ mode = "all"
    /\ stop = "all_pages"
    /\ total_pages # None
    /\ total_pages[1] >= 2
    /\ Len(requests) = total_pages[1]
    /\ maxReported[1] > total_pages[1]

(* The largest page count reported in the invocation, 0 when none was. *)
ReportedTotal == IF maxReported = None THEN 0 ELSE maxReported[1]

(* C10 as stated: an invocation issues at most max(pageLimit, totalPages)  *)
(* upstream requests (totalPages alone in get_all_pages).                  *)
C10_RequestsWithinStatedBound ==
    (Paginating /\ maxReported # None)
    => Len(requests) =< (IF mode = "chunked"
                         THEN Max(chunk_size, ReportedTotal)
                         ELSE ReportedTotal)

RequestBound ==
    Paginating
    => Len(requests) =< (IF mode = "chunked"
                         THEN Max(chunk_size, ReportedTotal) + 1
                         ELSE Max(1, ReportedTotal))

(* C10 amended: every invocation terminates; get_all_pages issues at most  *)
(* max(1, totalPages) requests and get_chunked_pages at most               *)
(* max(chunkSize, totalPages) + 1, the metadata request included.          *)
C10_TerminatesWithinBound ==
    /\ []RequestBound
    /\ (pc \in InFlight) ~> (pc = "done")

C10_Witness ==
    /\ pc = "done"
    /\ mode = "chunked"
    /\ stop = "range_done"
    /\ chunk_size = 2
    /\ ReportedTotal = 2
    /\ Len(requests) = 3

(* C11: the deadline is tested before a page request and not while one is  *)
(* in flight: get_all_pages issues no request in a pass that starts with   *)
(* less than 60 s of its 570 s left, get_chunked_pages none in a pass that *)
(* starts after more than 420 s; such a pass ends the invocation with      *)
(* status 200 and the items accumulated so far, and the items of a page    *)
(* that was requested and answered are kept however long the answer took.  *)
C11_DeadlineCheckedBeforeRequest ==
    [][/\ ((\/ pc = "get_all_pages" /\ Seconds(570) - elapsed < Seconds(60)
            \/ pc = "get_chunked_pages" /\ elapsed > Seconds(420))
           => /\ requests' = requests
              /\ pc' = "done"
              /\ response'.status = 200
              /\ response'.Items = all_items)
       /\ ((/\ pc \in {"get_all_pages:requests.get", "get_chunked_pages:requests.get"}
            /\ pc' # pc
            /\ upstream'[1].kind = "ok"
            /\ upstream'[1].items # <<>>)
           => all_items' = all_items \o upstream'[1].items)]_vars

C11_Witness ==
    /\ pc = "done"
    /\ mode = "all"
    /\ stop = "deadline"
    /\ elapsed > Seconds(510)
    /\ response.status = 200
    /\ Len(requests) = 2
    /\ Len(response.Items) = 2 * PageLen

(* C12: over a fixed dataset of N >= 1 non-empty pages, with no failure    *)
(* and no deadline stop, get_all_pages requests the pages 1..N in order,   *)
(* stops with the request of page N and answers 200 with the items of the  *)
(* N pages.                                                                *)
C12_AllPagesRetrieved ==
    (mode = "all" /\ clean /\ dataset # None)
    => /\ Len(requests) =< dataset[1]
       /\ \A i \in 1..Len(requests) : requests[i].page = Some(i)
       /\ all_items = ItemsOfPages(1, Fetched)
       /\ pc = "done" <=> Fetched = dataset[1]
       /\ pc = "done" => /\ response.status = 200
                         /\ response.Items = ItemsOfPages(1, dataset[1])

C12_Witness ==
    /\ mode = "all"
    /\ clean
    /\ pc = "done"
    /\ dataset = Some(3)
    /\ Len(requests) = 3
    /\ response.Items = ItemsOfPages(1, 3)

(* C13: in a 200 response of get_chunked_pages PagesRetrieved is the       *)
(* number of pages whose items are in Items and EndPage the last of them,  *)
(* whether the loop ran through the range or stopped early.                *)
C13_ChunkInfoCountsIncluded ==
    (pc = "done" /\ mode = "chunked" /\ response.status = 200)
    => /\ response.ChunkInfo.PagesRetrieved = Len(included)
       /\ included # <<>> => response.ChunkInfo.EndPage = Last(included)

(* C14: an invocation of call_unleashed_api or call_unleashed_api_chunked  *)
(* that finds UNLEASHED_API_ID or UNLEASHED_API_KEY unset or empty answers *)
(* 400 without any upstream request, and every request issued carries the  *)
(* non-empty settings read at entry.                                       *)
C14_MissingCredentialsRejected ==
    /\ (/\ pc # "idle"
        /\ mode # "info"
        /\ \/ environ[1] \in {None, Some("")}
           \/ environ[2] \in {None, Some("")})
       => /\ pc = "done"
          /\ response.status = 400
          /\ requests = <<>>
    /\ requests # <<>>
       => /\ environ[1] \notin {None, Some("")}
          /\ environ[2] \notin {None, Some("")}
          /\ \A i \in 1..Len(requests) :
                 requests[i].headers.api_auth_id = environ[1][1]

C14_Witness ==
    /\ pc = "done"
    /\ environ = <<Some("id"), Some("")>>
    /\ response.status = 400
    /\ requests = <<>>

(* C15: a timeout of the first upstream request of an invocation (page 1   *)
(* in get_all_pages, the metadata request in get_chunked_pages) is         *)
(* answered with status 408.                                               *)
C15_FirstTimeoutIs408 ==
    (/\ Paginating
     /\ Answered
     /\ upstream[1].kind = "timeout"
     /\ Len(requests) = 1)
    => /\ pc = "done"
       /\ response.status = 408

(* C16: when the first upstream request of an invocation is answered with  *)
(* a status S other than 200, the response has status S and its body       *)
(* contains the upstream body.                                             *)
C16_FirstErrorPassedOn ==
    (/\ mode \in {"single", "all", "chunked"}
     /\ Answered
     /\ upstream[1].kind = "http"
     /\ Len(requests) = 1)
    => /\ pc = "done"
       /\ response.status = upstream[1].status
       /\ Contains(response.text, upstream[1].text)

C16_Witness ==
    /\ mode = "all"
    /\ Answered
    /\ upstream[1].kind = "http"
    /\ upstream[1].status = 401
    /\ Len(requests) = 1
    /\ response.status = 401
    /\ Contains(response.text, <<"upstream error ", "401">>)

(* The parameters request i sends, and the parameters it signs. *)
SentParams(i) == Params(QueryOfUrl(requests[i].url))
SignedParams(i) == Params(requests[i].headers.api_auth_signature[3])

(* The parameters request i sends apart from the function key, the proxy's *)
(* own parameters and the page number the engine adds.                     *)
SentFilters(i) ==
    WithoutKeys(SentParams(i), {FunctionKey, "pageNumber="} \cup ControlKeys)

(* C17: no request sends or signs a parameter named code, and the other    *)
(* parameters of the inbound query are sent in their original order (a     *)
(* default pageSize may follow them).                                      *)
C17_FunctionKeyNeverSent ==
    \A i \in 1..Len(requests) :
        /\ \A k \in 1..Len(SentParams(i)) : KeyOf(SentParams(i)[k]) # FunctionKey
        /\ \A k \in 1..Len(SignedParams(i)) : KeyOf(SignedParams(i)[k]) # FunctionKey
        /\ SentFilters(i) \in {filters, Append(filters, <<"pageSize=", "1000">>)}

(* The second page request of a chunked call whose inbound query held the  *)
(* function key between sort=z and filter=x, two parameters that are not   *)
(* in alphabetical order.                                                  *)
C17_Witness ==
    /\ mode = "chunked"
    /\ Len(requests) = 3
    /\ filters = << <<"sort=", "z">>, <<"filter=", "x">> >>
    /\ SentParams(3) = << <<"sort=", "z">>, <<"filter=", "x">>,
                          <<"pageSize=", "1000">>, <<"pageNumber=", "2">> >>
    /\ SignedParams(3) = SentParams(3)

(* C18: no request sends startPage, chunkSize or singlePage upstream,      *)
(* whichever entry point served the invocation.                            *)
C18_ControlParametersNeverSent ==
    \A i \in 1..Len(requests) :
        \A k \in 1..Len(SentParams(i)) : KeyOf(SentParams(i)[k]) \notin ControlKeys

(* The pageSize parameters of a parameter list. *)
PageSizes(params) ==
    LET IsPageSize(prm) == KeyOf(prm) = "pageSize="
    IN  SelectSeq(params, IsPageSize)

(* C19: every request carries exactly one pageSize parameter: the inbound  *)
(* one when the inbound query has it, pageSize=1000 otherwise.             *)
C19_OnePageSize ==
    \A i \in 1..Len(requests) :
        PageSizes(SentParams(i))
            = IF PageSizes(filters) # <<>> THEN PageSizes(filters)
              ELSE << <<"pageSize=", "1000">> >>

C19_Witness ==
    /\ mode = "chunked"
    /\ Len(requests) = 2
    /\ PageSizes(filters) = << <<"pageSize=", "500">> >>
    /\ PageSizes(SentParams(2)) = << <<"pageSize=", "500">> >>

(* A key that is a filter of no Unleashed resource. *)
UnlistedKeys == {"colour="}

(* C20: for SalesOrders and Invoices a parameter whose key is not a filter *)
(* of the resource is sent in no request.                                  *)
C20_UnlistedParameterDropped ==
    endpoint \in {"SalesOrders", "Invoices"}
    => \A i \in 1..Len(requests) :
           \A k \in 1..Len(SentParams(i)) :
               KeyOf(SentParams(i)[k]) \notin UnlistedKeys

(* C22: in a 200 response of get_all_pages Pagination.PagesRetrieved is    *)
(* the number of pages whose items are in Items, whatever stopped the      *)
(* loop.                                                                   *)
C22_PagesRetrievedCountsIncluded ==
    (pc = "done" /\ mode = "all" /\ response.status = 200)
    => response.Pagination.PagesRetrieved = Len(included)

(* C23: an invocation of call_unleashed_api whose query holds              *)
(* singlePage=true issues exactly one upstream request, whose query string *)
(* has neither a singlePage nor a pageNumber parameter, and passes an      *)
(* upstream body of status 200 on unchanged with status 200.               *)
C23_SinglePageOptOut ==
    (opt_out /\ pc = "done" /\ environ = <<Some("id"), Some("secret")>>)
    => /\ Len(requests) = 1
       /\ \A k \in 1..Len(SentParams(1)) :
              KeyOf(SentParams(1)[k]) \notin {"singlePage=", "pageNumber="}
       /\ \A k \in 1..Len(SignedParams(1)) :
              KeyOf(SignedParams(1)[k]) \notin {"singlePage=", "pageNumber="}
       /\ upstream[1].status = 200
          => /\ response.status = 200
             /\ response.body = upstream[1]

C23_Witness ==
    /\ opt_out
    /\ pc = "done"
    /\ Len(requests) = 1
    /\ upstream[1].kind = "ok"
    /\ upstream[1].items # <<>>
    /\ upstream[1].pages = Some(MaxTotal)
    /\ response.status = 200
    /\ response.body = upstream[1]

(* C25: at every point of both loops the accumulated items are the items   *)
(* of the pages FirstPage, FirstPage + 1, ... in that order, one run       *)
(* without gap or repetition, and they hold nothing of a page that failed  *)
(* or came back empty.                                                     *)
C25_AccumulatorIsPrefix ==
    Paginating
    => /\ \A i \in 1..Len(included) : included[i] = FirstPage + i - 1
       /\ all_items = ItemsOfPages(FirstPage, FirstPage + Len(included) - 1)
       /\ (Answered /\ ~Last(requests).meta
           /\ (upstream[1].kind \in Failures \/ upstream[1].items = <<>>))
          => (included = <<>> \/ Last(included) < LastPage)

C25_Witness ==
    /\ mode = "all"
    /\ pc = "done"
    /\ LastPage = 4
    /\ included = <<1, 2, 3>>
    /\ all_items = ItemsOfPage(1) \o ItemsOfPage(2) \o ItemsOfPage(3)
    /\ Answered
    /\ upstream[1].kind \in Failures

(* C26: a 200 response of get_chunked_pages has NextStartPage = null        *)
(* exactly when HasMorePages is false, and with HasMorePages true          *)
(* StartPage < NextStartPage <= TotalPages; so the NextStartPage values a  *)
(* client gets by echoing them grow strictly and stay within the page      *)
(* count, which bounds the number of chunks before HasMorePages = false.   *)
C26_ContinuationAdvances ==
    /\ (pc = "done" /\ mode = "chunked" /\ response.status = 200)
       => LET ci == response.ChunkInfo
          IN  /\ (ci.NextStartPage = None) <=> ~ci.HasMorePages
              /\ ci.HasMorePages
                 => /\ ci.StartPage < ci.NextStartPage[1]
                    /\ ci.NextStartPage[1] =< ci.TotalPages
    /\ sess.state # "none"
       => /\ \A i \in 1..Len(sess.nexts) :
                 sess.nexts[i] # None
                 => /\ sess.nexts[i][1] =< full[1].N
                    /\ sess.nexts[i][1] > (IF i = 1 THEN 1 ELSE sess.nexts[i - 1][1])
          /\ Len(sess.nexts) =< full[1].N
          /\ sess.state = "open" <=> (sess.nexts = <<>> \/ Last(sess.nexts) # None)

C26_Witness ==
    /\ pc = "done"
    /\ mode = "chunked"
    /\ response.status = 200
    /\ response.ChunkInfo.HasMorePages
    /\ response.ChunkInfo.StartPage = 3
    /\ response.ChunkInfo.NextStartPage = Some(5)
    /\ sess.state = "open"
    /\ sess.nexts = <<Some(3), Some(5)>>

(* C27: a chunk whose startPage lies beyond the page count the metadata    *)
(* request reported is answered 200 with no items, HasMorePages = false    *)
(* and NextStartPage = null.                                               *)
C27_EmptyRangeIsEmptyChunk ==
    (/\ pc = "done"
     /\ mode = "chunked"
     /\ Len(requests) = 1
     /\ upstream[1].kind = "ok"
     /\ start_page > NumberOfPages(upstream[1]))
    => /\ response.status = 200
       /\ response.Items = <<>>
       /\ ~response.ChunkInfo.HasMorePages
       /\ response.ChunkInfo.NextStartPage = None

(* C28: for each of the seven resource types the recommendedChunkSize the  *)
(* UnleashedDatasetInfo route reports is the chunk size                    *)
(* call_unleashed_api_chunked uses when the request names none.            *)
C28_RecommendedIsDefault ==
    (pc = "done" /\ mode = "info" /\ response.endpoint \in ResourceTypes)
    => response.info.recommendedChunkSize = endpoint_defaults(response.endpoint)

(* C21: whenever a page request is issued, elapsed time plus the request's *)
(* timeout is within the invocation limit: elapsed + max(30, min(120, (570 *)
(* - elapsed) / 3)) <= 570 in get_all_pages and elapsed + max(30, min(90,  *)
(* (480 - elapsed) / 3)) <= 480 in get_chunked_pages, the timeouts being   *)
(* the ones the code passes to requests.get; a request that returns within *)
(* its timeout leaves the invocation below the limit.                      *)
C21_RequestFitsBudget ==
    [][LET ta == Max(Seconds(30), Min(Seconds(120), (Seconds(570) - elapsed) \div 3))
           tc == Max(Seconds(30), Min(Seconds(90), (Seconds(480) - elapsed) \div 3))
       IN  /\ (pc = "get_all_pages" /\ Len(requests') = Len(requests) + 1)
              => /\ all_request_timeout(FUNCTION_TIMEOUT - elapsed) = ta
                 /\ elapsed + ta =< Seconds(570)
                 /\ elapsed' = elapsed
           /\ (pc = "get_all_pages:requests.get" /\ pc' # pc
               /\ elapsed' - elapsed =< ta)
              => elapsed' < Seconds(570)
           /\ (pc = "get_chunked_pages" /\ Len(requests') = Len(requests) + 1)
              => /\ chunk_request_timeout(elapsed) = tc
                 /\ elapsed + tc =< Seconds(480)
                 /\ elapsed' = elapsed
           /\ (pc = "get_chunked_pages:requests.get" /\ pc' # pc
               /\ elapsed' - elapsed =< tc)
              => elapsed' < Seconds(480)
      ]_vars

C21_Witness ==
    /\ mode = "all"
    /\ pc = "done"
    /\ Len(requests) = 2
    /\ upstream[1].kind = "timeout"
    /\ elapsed = Seconds(540)

(* The invocation run alone: the same handlers applied, one after the      *)
(* other, to the inbound request and the upstream answers it is given.     *)
RECURSIVE RunAlone(_, _)
RunAlone(st, answers) ==
    IF st.pc \in Tops THEN RunAlone(StepRequest(st), answers)
    ELSE IF st.pc \in Sleeps THEN RunAlone(StepSleep(st), answers)
    ELSE IF st.pc \notin Waits \/ answers = <<>> THEN st
    ELSE RunAlone(StepAnswer(st, Head(answers)[1], Head(answers)[2]), Tail(answers))

(* The handlers run alone on the inbound request of invocation i and the   *)
(* upstream answers it has received, up to the wait that follows them.     *)
Alone(i) == RunAlone(Started(inv[i].input[1]), inv[i].answers)

(* Invocation i run on, alone, to its next requests.get or its return. *)
Settled(i) == RunAlone(inv[i], <<>>)

(* C24: two invocations share no mutable state: under every interleaving   *)
(* of their steps, the response of each (and every local it holds on the   *)
(* way) is the one the same handlers produce run alone on the invocation's *)
(* inbound request and the upstream answers it received.                   *)
C24_InvocationsIndependent ==
    \A i \in Invocations :
        inv[i].pc # "idle"
        => /\ Settled(i).pc = Alone(i).pc
           /\ Settled(i).frame = Alone(i).frame
           /\ Settled(i).response = Alone(i).response

C24_Witness ==
    /\ inv[1].pc = "done"
    /\ inv[2].pc = "done"
    /\ inv[1].overlapped
    /\ inv[2].overlapped
    /\ inv[1].input[1].route = "api"
    /\ inv[2].input[1].route = "chunked"
    /\ inv[1].response.status = 200
    /\ inv[2].response.status = 200
    /\ inv[1].response.kind = "json"
    /\ inv[2].response.kind = "json"
    /\ inv[1].response.Items = ItemsOfPages(1, ConcTotal)
    /\ inv[2].response.Items = ItemsOfPage(2)

====
